---- MODULE Spec2Model ----
(***************************************************************************)
(* Container ADTs of EA_Ejercicios_JS: the array-backed Stack, Queue and   *)
(* Bag and the linked ListaSimple.  Every module of the repository is run  *)
(* on its own with node; a behaviour of Spec is one such run, in which a   *)
(* client calls the public methods of the container the module builds.     *)
(***************************************************************************)
EXTENDS Integers, Sequences, FiniteSets, TLC

(* ------------------------------ bounds -------------------------------- *)

\* Number of add-operations a client performs in one run.
MaxAdds == 3

(* --------------------------- JavaScript values ------------------------ *)

\* The two absent values of JavaScript.
Undefined == "undefined"
Null == "null"
Absent == {Null, Undefined}

\* Ordinary items, the ones the inline tests store.
Items == {"1", "Hola"}

\* Everything a client can hand to an add-operation: JavaScript is untyped.
Value == Items \cup Absent

\* A private field that was declared without initialiser (#first) and the sig
\* of a fresh Nodo hold undefined; node references are positive heap indices.
NoNode == 0

\* Array.prototype.push: append at the end.
ArrayPush(a, x) == Append(a, x)

\* Array.prototype.pop: remove and return the last element; on an empty array
\* nothing is removed and undefined is returned.
ArrayPop(a) ==
    IF Len(a) = 0
    THEN [arr |-> a, ret |-> Undefined]
    ELSE [arr |-> SubSeq(a, 1, Len(a) - 1), ret |-> a[Len(a)]]

\* Array.prototype.shift: remove and return the first element; on an empty
\* array nothing is removed and undefined is returned.
ArrayShift(a) ==
    IF Len(a) = 0
    THEN [arr |-> a, ret |-> Undefined]
    ELSE [arr |-> SubSeq(a, 2, Len(a)), ret |-> a[1]]

(* -------------------------------- Stack ------------------------------- *)

\* Mutant: the array is pre-sized, `this.items = new Array(1)`.
Stack_constructor_presized == [items |-> <<Undefined>>]

Stack_constructor == [items |-> <<>>]

\* Mutant: push inserts at the front of the array, `this.items.unshift(item)`.
Stack_push_unshift(s, item) ==
    [obj |-> [s EXCEPT !.items = <<item>> \o @],
     result |-> "return", ret |-> Undefined]

Stack_push(s, item) ==
    [obj |-> [s EXCEPT !.items = ArrayPush(@, item)],
     result |-> "return", ret |-> Undefined]

\* Mutant: pop takes from the front of the array, as Queue.dequeue does.
Stack_pop_shift(s) ==
    [obj |-> [s EXCEPT !.items = ArrayShift(@).arr],
     result |-> "return", ret |-> ArrayShift(s.items).ret]

Stack_pop(s) ==
    [obj |-> [s EXCEPT !.items = ArrayPop(@).arr],
     result |-> "return", ret |-> ArrayPop(s.items).ret]

Stack_isEmpty(s) == Len(s.items) = 0

\* Mutant: size answers the index of the last element.
Stack_size_lastIndex(s) == Len(s.items) - 1

Stack_size(s) == Len(s.items)

\* The calls pila.isEmpty() and pila.size(): the bodies are a single return.
Stack_isEmpty_call(s) ==
    [obj |-> s, result |-> "return", ret |-> Stack_isEmpty(s)]

Stack_size_call(s) ==
    [obj |-> s, result |-> "return", ret |-> Stack_size(s)]

(* -------------------------------- Queue ------------------------------- *)

Queue_constructor == [items |-> <<>>]

Queue_enqueue(q, item) ==
    [obj |-> [q EXCEPT !.items = ArrayPush(@, item)],
     result |-> "return", ret |-> Undefined]

\* Mutant: dequeue takes from the end of the array, as Stack.pop does.
Queue_dequeue_pop(q) ==
    [obj |-> [q EXCEPT !.items = ArrayPop(@).arr],
     result |-> "return", ret |-> ArrayPop(q.items).ret]

Queue_dequeue(q) ==
    [obj |-> [q EXCEPT !.items = ArrayShift(@).arr],
     result |-> "return", ret |-> ArrayShift(q.items).ret]

Queue_isEmpty(q) == Len(q.items) = 0

Queue_size(q) == Len(q.items)

Queue_isEmpty_call(q) ==
    [obj |-> q, result |-> "return", ret |-> Queue_isEmpty(q)]

Queue_size_call(q) ==
    [obj |-> q, result |-> "return", ret |-> Queue_size(q)]

(* --------------------------------- Bag -------------------------------- *)

Bag_constructor == [items |-> <<>>]

\* Mutant: add starts a new array once two items are held,
\* `if (this.items.length >= 2) this.items = []` before the push.
Bag_add_flush(b, item) ==
    [obj |-> [b EXCEPT !.items =
                 IF Len(@) >= 2 THEN <<item>> ELSE ArrayPush(@, item)],
     result |-> "return", ret |-> Undefined]

Bag_add(b, item) ==
    [obj |-> [b EXCEPT !.items = ArrayPush(@, item)],
     result |-> "return", ret |-> Undefined]

Bag_isEmpty(b) == Len(b.items) = 0

Bag_size(b) == Len(b.items)

Bag_isEmpty_call(b) ==
    [obj |-> b, result |-> "return", ret |-> Bag_isEmpty(b)]

Bag_size_call(b) ==
    [obj |-> b, result |-> "return", ret |-> Bag_size(b)]

(* ----------------------------- ListaSimple ---------------------------- *)

\* new Nodo(): both fields undefined until addHead assigns them.
Nodo == [item |-> Undefined, sig |-> NoNode]

\* Field initialisers: #first is left undefined, #n = 0.
ListaSimple_constructor == [first |-> NoNode, n |-> 0]

\* Mutant: addHead forgets `this.#n++`.
ListaSimple_addHead_noCount(o, h, item) ==
    LET x == Len(h) + 1
        nodo == [Nodo EXCEPT !.item = item, !.sig = o.first]
    IN  [obj |-> [first |-> x, n |-> o.n],
         heap |-> Append(h, nodo),
         result |-> "return", ret |-> Undefined]

\* Mutant: addHead forgets `x.sig = this.#first`, so the new node's sig stays
\* undefined.
ListaSimple_addHead_noLink(o, h, item) ==
    LET x == Len(h) + 1
        nodo == [Nodo EXCEPT !.item = item]
    IN  [obj |-> [first |-> x, n |-> o.n + 1],
         heap |-> Append(h, nodo),
         result |-> "return", ret |-> Undefined]

\* Mutant: the node is created once, as a module-level `const x = new Nodo()`
\* would be, and every addHead of every list reuses it.
ListaSimple_addHead_sharedNode(o, h, item) ==
    LET nodo == [Nodo EXCEPT !.item = item, !.sig = o.first]
    IN  [obj |-> [first |-> 1, n |-> o.n + 1],
         heap |-> IF h = <<>> THEN <<nodo>> ELSE [h EXCEPT ![1] = nodo],
         result |-> "return", ret |-> Undefined]

\* The heap h is the sequence of the Nodo objects allocated so far; a node
\* reference is its index.
ListaSimple_addHead(o, h, item) ==
    LET x == Len(h) + 1
        nodo == [Nodo EXCEPT !.item = item, !.sig = o.first]
    IN  [obj |-> [first |-> x, n |-> o.n + 1],
         heap |-> Append(h, nodo),
         result |-> "return", ret |-> Undefined]

\* Mutant: removeHead forgets `this.#first = this.#first.sig`.
ListaSimple_removeHead_keepFirst(o, h) ==
    IF o.first = NoNode
    THEN [obj |-> o, heap |-> h, result |-> "throw", ret |-> "ReferenceError"]
    ELSE [obj |-> [first |-> o.first, n |-> o.n - 1],
          heap |-> h,
          result |-> "return", ret |-> h[o.first].item]

\* Mutant: `this.#n--` is executed before the emptiness test.
ListaSimple_removeHead_countFirst(o, h) ==
    IF o.first = NoNode
    THEN [obj |-> [o EXCEPT !.n = @ - 1], heap |-> h,
          result |-> "throw", ret |-> "ReferenceError"]
    ELSE [obj |-> [first |-> h[o.first].sig, n |-> o.n - 1],
          heap |-> h,
          result |-> "return", ret |-> h[o.first].item]

\* Mutant: the item is read after #first has advanced (`this.#first?.item`).
ListaSimple_removeHead_readAfter(o, h) ==
    IF o.first = NoNode
    THEN [obj |-> o, heap |-> h, result |-> "throw", ret |-> "ReferenceError"]
    ELSE [obj |-> [first |-> h[o.first].sig, n |-> o.n - 1],
          heap |-> h,
          result |-> "return",
          ret |-> IF h[o.first].sig = NoNode THEN Undefined
                  ELSE h[h[o.first].sig].item]

\* Mutant: removeHead forgets `this.#n--`.
ListaSimple_removeHead_noCount(o, h) ==
    IF o.first = NoNode
    THEN [obj |-> o, heap |-> h, result |-> "throw", ret |-> "ReferenceError"]
    ELSE [obj |-> [first |-> h[o.first].sig, n |-> o.n],
          heap |-> h,
          result |-> "return", ret |-> h[o.first].item]

\* `throw new Exception(...)`: no Exception is declared or imported, so the
\* evaluation of the operand raises a ReferenceError.
ListaSimple_removeHead(o, h) ==
    IF o.first = NoNode
    THEN [obj |-> o, heap |-> h, result |-> "throw", ret |-> "ReferenceError"]
    ELSE [obj |-> [first |-> h[o.first].sig, n |-> o.n - 1],
          heap |-> h,
          result |-> "return", ret |-> h[o.first].item]

ListaSimple_isEmpty(o) == o.n = 0

ListaSimple_size(o) == o.n

\* Mutant: isEmpty assigns instead of comparing, `return this.#n = 0`.
ListaSimple_isEmpty_call_assign(o) ==
    [obj |-> [o EXCEPT !.n = 0], result |-> "return", ret |-> FALSE]

ListaSimple_isEmpty_call(o) ==
    [obj |-> o, result |-> "return", ret |-> ListaSimple_isEmpty(o)]

ListaSimple_size_call(o) ==
    [obj |-> o, result |-> "return", ret |-> ListaSimple_size(o)]

(* ------------------------------ iteration ---------------------------- *)

\* The value of obj[Symbol.iterator] for an instance of each class: no class
\* body defines that member and Object.prototype has none, so the property
\* read yields undefined.
Stack_SymbolIterator == Undefined
Queue_SymbolIterator == Undefined
Bag_SymbolIterator == Undefined
ListaSimple_SymbolIterator == Undefined

\* `for (const x of obj)`: the loop first reads obj[Symbol.iterator] and
\* throws a TypeError ("obj is not iterable") when that is not a function;
\* otherwise the function named by the member produces the items.
ForOf(obj, method) ==
    IF method = Undefined
    THEN [obj |-> obj, result |-> "throw", ret |-> "TypeError"]
    ELSE [obj |-> obj, result |-> "return", ret |-> method]

(* ------------------------------- state -------------------------------- *)

VARIABLES
    module,     \* the module that node runs
    pila,       \* Stack.mjs: let pila = new Stack()
    cola,       \* Queue.mjs: let cola = new Queue()
    bag,        \* the Bag module: let bag = new Bag()
    l,          \* the ListaSimple module: const l = new ListaSimple()
    heap,       \* the Nodo objects allocated so far
    last,       \* the last call: its name, argument, outcome and the size before
    log,        \* the items of the add-operations so far, in call order
    gone,       \* the positions of log whose item has been removed
    added,      \* number of add-operations that returned
    removed,    \* number of remove-operations that removed an element
    store,      \* two-instance runs: the JavaScript arrays allocated so far
    inst,       \* two-instance runs: the two containers the client built
    pts,        \* Punto2D runs: the points the client built
    built,      \* Punto2D runs: the coordinates each point was built with
    d1,         \* date runs: the left operand of the comparison
    d2,         \* date runs: the right operand of the comparison
    mirror,     \* lockstep run: the outcome of the last call on the ListaSimple
    pc,         \* loop runs: where the function is (idle, loop, done)
    Nmin,       \* medicionesRangoN: first size
    Nmax,       \* medicionesRangoN: largest size
    N,          \* medicionesRangoN: the loop variable
    medidos,    \* medicionesRangoN: the datos.length values printed so far
    generar_n,  \* generar: the argument n, the number of persons asked for
    generar_i,  \* generar: the loop variable i
    personas    \* generar: the list built so far

\* The variables that only the other specifications of this module change.
more == <<mirror, pc, Nmin, Nmax, N, medidos, generar_n, generar_i, personas>>

aux == <<store, inst, pts, built, d1, d2, more>>

\* The values those variables keep in a run that does not use them.
IdleTwo == store = <<>> /\ inst = <<>>
IdlePunto == pts = <<>> /\ built = <<>>
IdleDate == d1 = <<>> /\ d2 = <<>>
IdlePair == mirror = <<>>
IdleRango == Nmin = 0 /\ Nmax = 0 /\ N = 0 /\ medidos = {}
IdleGenerar == generar_n = 0 /\ generar_i = 0 /\ personas = <<>>
IdleMore == IdlePair /\ pc = "idle" /\ IdleRango /\ IdleGenerar

vars == <<module, pila, cola, bag, l, heap, last, log, gone, added, removed, aux>>

Modules == {"Stack", "Queue", "Bag", "ListaSimple"}

\* size() and isEmpty() of the container of the running module.
CurSize ==
    CASE module = "Stack" -> Stack_size(pila)
      [] module = "Queue" -> Queue_size(cola)
      [] module = "Bag" -> Bag_size(bag)
      [] module = "ListaSimple" -> ListaSimple_size(l)

CurIsEmpty ==
    CASE module = "Stack" -> Stack_isEmpty(pila)
      [] module = "Queue" -> Queue_isEmpty(cola)
      [] module = "Bag" -> Bag_isEmpty(bag)
      [] module = "ListaSimple" -> ListaSimple_isEmpty(l)

Live == (1..Len(log)) \ gone

Max(S) == CHOOSE x \in S : \A y \in S : y <= x
Min(S) == CHOOSE x \in S : \A y \in S : x <= y

\* The outcome of a call that returns a boolean or a number, with the value
\* written as text (a thrown error is named by a text already).
Noted(r) == IF r.result = "return" THEN [r EXCEPT !.ret = ToString(@)] ELSE r

Call(name, arg, r, n0) ==
    [name |-> name, arg |-> arg, result |-> r.result, ret |-> r.ret, n0 |-> n0]

Init ==
    /\ module \in Modules
    /\ pila = Stack_constructor
    /\ cola = Queue_constructor
    /\ bag = Bag_constructor
    /\ l = ListaSimple_constructor
    /\ heap = <<>>
    /\ last = [name |-> "new", arg |-> Undefined, result |-> "return",
               ret |-> Undefined, n0 |-> 0]
    /\ log = <<>>
    /\ gone = {}
    /\ added = 0
    /\ removed = 0
    /\ IdleTwo /\ IdlePunto /\ IdleDate /\ IdleMore

\* Bookkeeping of an add-operation that returned or threw.
NoteAdd(item, r) ==
    IF r.result = "return"
    THEN /\ log' = Append(log, item)
         /\ added' = added + 1
         /\ UNCHANGED <<gone, removed>>
    ELSE UNCHANGED <<log, added, gone, removed>>

\* Bookkeeping of a remove-operation: it removed an element when the
\* container held one and the call returned.
NoteRemove(r, n0, pos) ==
    IF r.result = "return" /\ n0 > 0
    THEN /\ gone' = gone \cup {pos}
         /\ removed' = removed + 1
         /\ UNCHANGED <<log, added>>
    ELSE UNCHANGED <<log, added, gone, removed>>

Push(item) ==
    /\ module = "Stack"
    /\ Len(log) < MaxAdds
    /\ LET r == Stack_push(pila, item) IN
        /\ pila' = r.obj
        /\ last' = Call("push", item, r, Stack_size(pila))
        /\ NoteAdd(item, r)
    /\ UNCHANGED <<module, cola, bag, l, heap, aux>>

Pop ==
    /\ module = "Stack"
    /\ LET r == Stack_pop(pila) IN
        /\ pila' = r.obj
        /\ last' = Call("pop", Undefined, r, Stack_size(pila))
        /\ NoteRemove(r, Stack_size(pila), IF Live = {} THEN 0 ELSE Max(Live))
    /\ UNCHANGED <<module, cola, bag, l, heap, aux>>

Enqueue(item) ==
    /\ module = "Queue"
    /\ Len(log) < MaxAdds
    /\ LET r == Queue_enqueue(cola, item) IN
        /\ cola' = r.obj
        /\ last' = Call("enqueue", item, r, Queue_size(cola))
        /\ NoteAdd(item, r)
    /\ UNCHANGED <<module, pila, bag, l, heap, aux>>

Dequeue ==
    /\ module = "Queue"
    /\ LET r == Queue_dequeue(cola) IN
        /\ cola' = r.obj
        /\ last' = Call("dequeue", Undefined, r, Queue_size(cola))
        /\ NoteRemove(r, Queue_size(cola), IF Live = {} THEN 0 ELSE Min(Live))
    /\ UNCHANGED <<module, pila, bag, l, heap, aux>>

Add(item) ==
    /\ module = "Bag"
    /\ Len(log) < MaxAdds
    /\ LET r == Bag_add(bag, item) IN
        /\ bag' = r.obj
        /\ last' = Call("add", item, r, Bag_size(bag))
        /\ NoteAdd(item, r)
    /\ UNCHANGED <<module, pila, cola, l, heap, aux>>

AddHead(item) ==
    /\ module = "ListaSimple"
    /\ Len(log) < MaxAdds
    /\ LET r == ListaSimple_addHead(l, heap, item) IN
        /\ l' = r.obj
        /\ heap' = r.heap
        /\ last' = Call("addHead", item, r, ListaSimple_size(l))
        /\ NoteAdd(item, r)
    /\ UNCHANGED <<module, pila, cola, bag, aux>>

RemoveHead ==
    /\ module = "ListaSimple"
    /\ LET r == ListaSimple_removeHead(l, heap) IN
        /\ l' = r.obj
        /\ heap' = r.heap
        /\ last' = Call("removeHead", Undefined, r, ListaSimple_size(l))
        /\ NoteRemove(r, ListaSimple_size(l), IF Live = {} THEN 0 ELSE Max(Live))
    /\ UNCHANGED <<module, pila, cola, bag, aux>>

\* The call of isEmpty() or size() on the container of the running module;
\* r is the outcome of the call.  The boolean or number returned is noted in
\* `last` as text, like the items.
Query(name, r) ==
    /\ pila' = IF module = "Stack" THEN r.obj ELSE pila
    /\ cola' = IF module = "Queue" THEN r.obj ELSE cola
    /\ bag' = IF module = "Bag" THEN r.obj ELSE bag
    /\ l' = IF module = "ListaSimple" THEN r.obj ELSE l
    /\ last' = Call(name, Undefined, Noted(r), CurSize)
    /\ UNCHANGED <<module, heap, log, gone, added, removed, aux>>

IsEmpty ==
    /\ module \in Modules
    /\ Query("isEmpty",
             CASE module = "Stack" -> Stack_isEmpty_call(pila)
               [] module = "Queue" -> Queue_isEmpty_call(cola)
               [] module = "Bag" -> Bag_isEmpty_call(bag)
               [] module = "ListaSimple" -> ListaSimple_isEmpty_call(l))

Size ==
    /\ module \in Modules
    /\ Query("size",
             CASE module = "Stack" -> Stack_size_call(pila)
               [] module = "Queue" -> Queue_size_call(cola)
               [] module = "Bag" -> Bag_size_call(bag)
               [] module = "ListaSimple" -> ListaSimple_size_call(l))

\* The client iterates over the container of the running module.
Iterate ==
    /\ module \in Modules
    /\ Query("for-of",
             CASE module = "Stack" -> ForOf(pila, Stack_SymbolIterator)
               [] module = "Queue" -> ForOf(cola, Queue_SymbolIterator)
               [] module = "Bag" -> ForOf(bag, Bag_SymbolIterator)
               [] module = "ListaSimple" -> ForOf(l, ListaSimple_SymbolIterator))

Next ==
    \/ \E item \in Value : Push(item)
    \/ Pop
    \/ \E item \in Value : Enqueue(item)
    \/ Dequeue
    \/ \E item \in Value : Add(item)
    \/ \E item \in Value : AddHead(item)
    \/ RemoveHead
    \/ IsEmpty
    \/ Size
    \/ Iterate

Spec == Init /\ [][Next]_vars

TypeOK ==
    /\ module \in Modules
    /\ added \in 0..MaxAdds
    /\ removed \in 0..MaxAdds
    /\ Len(log) <= MaxAdds
    /\ gone \subseteq 1..MaxAdds

(* ------------------------ two container instances -------------------- *)

\* Mutant: the array is created once and shared, as a module-level
\* `const items = []` that every constructor assigns to this.items would be.
NewArray_shared(st) ==
    [ref |-> 1, store |-> IF st = <<>> THEN <<<<>>>> ELSE st]

\* The array literal `[]` of a constructor: each evaluation allocates a new
\* array; st is the sequence of the arrays allocated so far and a reference
\* is an index into it.
NewArray(st) == [ref |-> Len(st) + 1, store |-> Append(st, <<>>)]

\* The object behind a reference-holding instance, with its array's content.
Deref(o) == [items |-> store[o.items]]

\* The items of the chain that starts at node x, following sig.
RECURSIVE ChainItems(_, _)
ChainItems(h, x) ==
    IF x = NoNode THEN <<>> ELSE <<h[x].item>> \o ChainItems(h, h[x].sig)

\* The nodes met from node x on by following sig, at most k of them: the
\* walk of a traversal that gives up after k nodes.
RECURSIVE Chain(_, _, _)
Chain(h, x, k) ==
    IF x = NoNode \/ k = 0 THEN <<>> ELSE <<x>> \o Chain(h, h[x].sig, k - 1)

\* The walk of the whole chain from x: were it longer than the heap, it
\* would pass some node twice.
Reachable(h, x) == Chain(h, x, Len(h) + 1)

\* A run that builds two containers of the class of the module.
InitTwo ==
    /\ module \in Modules
    /\ pila = Stack_constructor
    /\ cola = Queue_constructor
    /\ bag = Bag_constructor
    /\ l = ListaSimple_constructor
    /\ heap = <<>>
    /\ last = [name |-> "new", arg |-> Undefined, result |-> "return",
               ret |-> Undefined, n0 |-> 0]
    /\ log = <<>>
    /\ gone = {}
    /\ added = 0
    /\ removed = 0
    /\ IF module = "ListaSimple"
       THEN /\ store = <<>>
            /\ inst = <<ListaSimple_constructor, ListaSimple_constructor>>
       ELSE LET a == NewArray(<<>>)
                b == NewArray(a.store)
            IN  /\ store = b.store
                /\ inst = <<[items |-> a.ref], [items |-> b.ref]>>
    /\ IdlePunto /\ IdleDate /\ IdleMore

\* What a client can observe of instance j: its items in order and size().
TwoItems(j) ==
    IF module = "ListaSimple"
    THEN ChainItems(heap, inst[j].first)
    ELSE store[inst[j].items]

TwoSize(j) ==
    CASE module = "Stack" -> Stack_size(Deref(inst[j]))
      [] module = "Queue" -> Queue_size(Deref(inst[j]))
      [] module = "Bag" -> Bag_size(Deref(inst[j]))
      [] module = "ListaSimple" -> ListaSimple_size(inst[j])

TwoView(j) == <<TwoItems(j), TwoSize(j)>>

\* The outcome r of a call on instance i is written back: an array-backed
\* container mutates the array its items field refers to, a list its fields.
TwoEffect(i, r) ==
    IF module = "ListaSimple"
    THEN /\ inst' = [inst EXCEPT ![i] = r.obj]
         /\ heap' = r.heap
         /\ UNCHANGED store
    ELSE /\ store' = [store EXCEPT ![inst[i].items] = r.obj.items]
         /\ UNCHANGED <<inst, heap>>

TwoFrame == UNCHANGED <<module, pila, cola, bag, l, log, gone, removed,
                        pts, built, d1, d2, more>>

TwoAdd(i, item) ==
    /\ module \in Modules
    /\ added < MaxAdds
    /\ LET r == CASE module = "Stack" -> Stack_push(Deref(inst[i]), item)
                  [] module = "Queue" -> Queue_enqueue(Deref(inst[i]), item)
                  [] module = "Bag" -> Bag_add(Deref(inst[i]), item)
                  [] module = "ListaSimple" ->
                        ListaSimple_addHead(inst[i], heap, item)
       IN  /\ TwoEffect(i, r)
           /\ last' = Call("add", item, r, TwoSize(i))
    /\ added' = added + 1
    /\ TwoFrame

TwoRemove(i) ==
    /\ module \in Modules \ {"Bag"}
    /\ LET r == CASE module = "Stack" -> Stack_pop(Deref(inst[i]))
                  [] module = "Queue" -> Queue_dequeue(Deref(inst[i]))
                  [] module = "ListaSimple" ->
                        ListaSimple_removeHead(inst[i], heap)
       IN  /\ TwoEffect(i, r)
           /\ last' = Call("remove", Undefined, r, TwoSize(i))
    /\ UNCHANGED added
    /\ TwoFrame

TwoQuery(i) ==
    /\ module \in Modules
    /\ LET c == CASE module = "Stack" -> Stack_size_call(Deref(inst[i]))
                  [] module = "Queue" -> Queue_size_call(Deref(inst[i]))
                  [] module = "Bag" -> Bag_size_call(Deref(inst[i]))
                  [] module = "ListaSimple" -> ListaSimple_size_call(inst[i])
           r == [obj |-> c.obj, heap |-> heap]
       IN  /\ TwoEffect(i, r)
           /\ last' = Call("size", Undefined, Noted(c), TwoSize(i))
    /\ UNCHANGED added
    /\ TwoFrame

TwoOp(i) == (\E item \in Value : TwoAdd(i, item)) \/ TwoRemove(i) \/ TwoQuery(i)

NextTwo ==
    \/ \E i \in {1, 2}, item \in Value : TwoAdd(i, item)
    \/ \E i \in {1, 2} : TwoRemove(i)
    \/ \E i \in {1, 2} : TwoQuery(i)

SpecTwo == InitTwo /\ [][NextTwo]_vars

(* --------------------------- ListaSimple.invert ----------------------- *)

\* invert() is exercise 3 of the ListaSimple module and has no body in the
\* source; it is modelled from the specification: the list is reversed in
\* place by turning every sig link around, in one pass and without
\* allocating nodes.  prev and cur are the two references of the pass.
RECURSIVE InvertLoop(_, _, _)
InvertLoop(h, prev, cur) ==
    IF cur = NoNode
    THEN [heap |-> h, first |-> prev]
    ELSE InvertLoop([h EXCEPT ![cur].sig = prev], cur, h[cur].sig)

\* Mutant: the pass turns the links around but #first is not moved to the
\* old tail.
ListaSimple_invert_keepFirst(o, h) ==
    [obj |-> o, heap |-> InvertLoop(h, NoNode, o.first).heap,
     result |-> "return", ret |-> Undefined]

ListaSimple_invert(o, h) ==
    LET r == InvertLoop(h, NoNode, o.first)
    IN  [obj |-> [o EXCEPT !.first = r.first], heap |-> r.heap,
         result |-> "return", ret |-> Undefined]

Reverse(s) == [i \in 1..Len(s) |-> s[Len(s) + 1 - i]]

\* A run of the ListaSimple module whose client also calls invert().
InitLista == Init /\ module = "ListaSimple"

Invert ==
    /\ module = "ListaSimple"
    /\ LET r == ListaSimple_invert(l, heap) IN
        /\ l' = r.obj
        /\ heap' = r.heap
        /\ last' = Call("invert", Undefined, r, ListaSimple_size(l))
    /\ UNCHANGED <<module, pila, cola, bag, log, gone, added, removed, aux>>

NextLista ==
    \/ \E item \in Value : AddHead(item)
    \/ RemoveHead
    \/ Invert

SpecLista == InitLista /\ [][NextLista]_vars

(* -------------------------------- Punto2D ----------------------------- *)

\* Largest coordinate and largest polar magnitude the client uses.
MaxCoord == 2

\* Lengths are counted in steps of 5E-7, so that the tolerance 1E-6 of
\* equals is two steps.
EPS == 2

Coord == 0..MaxCoord

\* Angles in degrees handed to the Punto2DPolar constructor.
Angles == {0, 90, 180, 270}

\* toRadians: t * Math.PI / 180.  Radians are counted in quarter turns
\* (Math.PI / 2), so the result is t * 2 / 180.
Punto2DPolar_toRadians(t) == (t * 2) \div 180

\* Math.cos and Math.sin on whole quarter turns (the floating-point results
\* differ from these by less than 1E-15, far below one step).
MathCos(k) == CASE k % 4 = 0 -> 1 [] k % 4 = 1 -> 0 [] k % 4 = 2 -> -1 [] OTHER -> 0
MathSin(k) == CASE k % 4 = 0 -> 0 [] k % 4 = 1 -> 1 [] k % 4 = 2 -> 0 [] OTHER -> -1

Punto2DCartesiano_constructor(x, y) == [cls |-> "Punto2DCartesiano", x |-> x, y |-> y]

Punto2DPolar_constructor(r, t) ==
    [cls |-> "Punto2DPolar", r |-> r, theta |-> Punto2DPolar_toRadians(t)]

\* The getters getX and getY of the two subclasses.
Punto2D_getX(p) ==
    IF p.cls = "Punto2DCartesiano" THEN p.x ELSE p.r * MathCos(p.theta)

Punto2D_getY(p) ==
    IF p.cls = "Punto2DCartesiano" THEN p.y ELSE p.r * MathSin(p.theta)

\* An argument of distancia or equals is a point or an absent value; every
\* argument is a record whose cls field tells which.
AbsentArg(a) == [cls |-> a]

\* distancia(p2): reading p2.getX of null or undefined throws a TypeError.
\* Otherwise ret is the SQUARE of the distance, in steps: the square root is
\* not an integer, and equals only compares the distance with EPS.
Punto2D_distancia(p, p2) ==
    IF p2.cls \in Absent
    THEN [result |-> "throw", ret |-> "TypeError"]
    ELSE LET dx == Punto2D_getX(p) - Punto2D_getX(p2)
             dy == Punto2D_getY(p) - Punto2D_getY(p2)
         IN  [result |-> "return", ret |-> dx * dx + dy * dy]

\* equals(p2): this.distancia(p2) < 1E-6, on the squares.
Punto2D_equals(p, p2) ==
    LET d == Punto2D_distancia(p, p2)
    IN  IF d.result = "throw" THEN d
        ELSE [result |-> "return", ret |-> d.ret < EPS * EPS]

\* `p.setX = v`: Punto2DCartesiano declares the setter; Punto2DPolar has only
\* the getter, and the assignment throws a TypeError in module (strict) code.
Punto2D_setX(p, v) ==
    IF p.cls = "Punto2DCartesiano"
    THEN [obj |-> [p EXCEPT !.x = v], result |-> "return", ret |-> Undefined]
    ELSE [obj |-> p, result |-> "throw", ret |-> "TypeError"]

Punto2D_setY(p, v) ==
    IF p.cls = "Punto2DCartesiano"
    THEN [obj |-> [p EXCEPT !.y = v], result |-> "return", ret |-> Undefined]
    ELSE [obj |-> p, result |-> "throw", ret |-> "TypeError"]

\* The points a client can build.
Puntos ==
    {Punto2DCartesiano_constructor(x, y) : x \in Coord, y \in Coord}
        \cup {Punto2DPolar_constructor(r, t) : r \in Coord, t \in Angles}

\* The state of the container modules in a run that does not use them.
IdleContainers ==
    /\ pila = Stack_constructor
    /\ cola = Queue_constructor
    /\ bag = Bag_constructor
    /\ l = ListaSimple_constructor
    /\ heap = <<>>
    /\ last = [name |-> "new", arg |-> Undefined, result |-> "return",
               ret |-> Undefined, n0 |-> 0]
    /\ log = <<>>
    /\ gone = {}
    /\ added = 0
    /\ removed = 0

PuntoFrame == UNCHANGED <<module, pila, cola, bag, l, heap, log, gone, added,
                          removed, store, inst, d1, d2, more>>

Coords(p) == <<Punto2D_getX(p), Punto2D_getY(p)>>

\* A run that builds three points and compares them.
InitPunto ==
    /\ module = "Punto2D"
    /\ IdleContainers /\ IdleTwo /\ IdleDate /\ IdleMore
    /\ pts \in [1..3 -> Puntos]
    /\ built = [i \in 1..3 |-> Coords(pts[i])]

\* pts[i].equals(pts[j])
Equals(i, j) ==
    /\ module = "Punto2D"
    /\ LET r == Punto2D_equals(pts[i], pts[j]) IN
        last' = Call("equals", ToString(j), Noted(r), i)
    /\ UNCHANGED <<pts, built>>
    /\ PuntoFrame

\* pts[i].equals(null), pts[i].equals(undefined)
EqualsAbsent(i, a) ==
    /\ module = "Punto2D"
    /\ LET r == Punto2D_equals(pts[i], AbsentArg(a)) IN
        last' = Call("equals", a, Noted(r), i)
    /\ UNCHANGED <<pts, built>>
    /\ PuntoFrame

NextPunto ==
    \/ \E i \in 1..3, j \in 1..3 : Equals(i, j)
    \/ \E i \in 1..3, a \in Absent : EqualsAbsent(i, a)

SpecPunto == InitPunto /\ [][NextPunto]_vars

\* A run that builds one point and then uses its accessors.
InitSetter ==
    /\ module = "Punto2DSetter"
    /\ IdleContainers /\ IdleTwo /\ IdleDate /\ IdleMore
    /\ pts \in [{1} -> Puntos]
    /\ built = [i \in {1} |-> Coords(pts[i])]

\* console.log(pts[1].getX)
GetX ==
    /\ module = "Punto2DSetter"
    /\ last' = [name |-> "getX", arg |-> Undefined, result |-> "return",
                ret |-> ToString(Punto2D_getX(pts[1])), n0 |-> 1]
    /\ UNCHANGED <<pts, built>>
    /\ PuntoFrame

\* pts[1].setX = v
SetX(v) ==
    /\ module = "Punto2DSetter"
    /\ LET r == Punto2D_setX(pts[1], v) IN
        /\ pts' = [pts EXCEPT ![1] = r.obj]
        /\ last' = Call("setX", ToString(v), r, 1)
    /\ UNCHANGED built
    /\ PuntoFrame

\* pts[1].setY = v
SetY(v) ==
    /\ module = "Punto2DSetter"
    /\ LET r == Punto2D_setY(pts[1], v) IN
        /\ pts' = [pts EXCEPT ![1] = r.obj]
        /\ last' = Call("setY", ToString(v), r, 1)
    /\ UNCHANGED built
    /\ PuntoFrame

NextSetter ==
    \/ GetX
    \/ \E v \in Coord : SetX(v)
    \/ \E v \in Coord : SetY(v)

SpecSetter == InitSetter /\ [][NextSetter]_vars

(* ---------------------------- ComparableDate -------------------------- *)

\* A JavaScript string is the sequence of its code units: "0".."9" are
\* 48..57 and "-" is 45.
\* ""+n for a non-negative integer n: its decimal digits.
RECURSIVE NumberToString(_)
NumberToString(n) ==
    IF n < 10 THEN <<48 + n>>
    ELSE NumberToString(n \div 10) \o <<48 + (n % 10)>>

\* String.prototype.padStart(len, "0")
RECURSIVE PadStart(_, _)
PadStart(str, len) ==
    IF Len(str) >= len THEN str ELSE PadStart(<<48>> \o str, len)

ComparableDate_constructor(year, month, date) ==
    [year |-> year, month |-> month, date |-> date]

\* Mutant: the toString without padding that the class keeps commented out,
\* ""+year+"-"+month+"-"+date.
ComparableDate_toString_unpadded(o) ==
    NumberToString(o.year) \o <<45>> \o NumberToString(o.month) \o <<45>>
        \o NumberToString(o.date)

ComparableDate_toString(o) ==
    PadStart(NumberToString(o.year), 4) \o <<45>>
        \o PadStart(NumberToString(o.month), 2) \o <<45>>
        \o PadStart(NumberToString(o.date), 2)

ComparableDate_valoeOf(o) == o.date + o.month * 31 + o.year * 366

\* The members the class body declares.  It has no valueOf: the method that
\* computes a number is spelled valoeOf.
ComparableDate_members == {"constructor", "toString", "valoeOf"}

\* ToPrimitive with hint number, as < and > apply it to an object: valueOf is
\* tried first; the inherited Object.prototype.valueOf returns the object
\* itself, which is no primitive, so the result is toString().
ComparableDate_ToPrimitive(o) ==
    IF "valueOf" \in ComparableDate_members
    THEN [type |-> "number", num |-> ComparableDate_valoeOf(o), str |-> <<>>]
    ELSE [type |-> "string", num |-> 0, str |-> ComparableDate_toString(o)]

\* String comparison of < : by code units, a proper prefix being smaller.
RECURSIVE StringLess(_, _)
StringLess(a, b) ==
    IF b = <<>> THEN FALSE
    ELSE IF a = <<>> THEN TRUE
    ELSE IF a[1] # b[1] THEN a[1] < b[1]
    ELSE StringLess(Tail(a), Tail(b))

\* px < py for two primitives: two strings are compared as strings, anything
\* else as numbers.
PrimitiveLess(px, py) ==
    IF px.type = "string" /\ py.type = "string"
    THEN StringLess(px.str, py.str)
    ELSE px.num < py.num

\* a < b and a > b on two ComparableDate objects (a > b is b < a).
ComparableDate_less(a, b) ==
    PrimitiveLess(ComparableDate_ToPrimitive(a), ComparableDate_ToPrimitive(b))

ComparableDate_greater(a, b) ==
    PrimitiveLess(ComparableDate_ToPrimitive(b), ComparableDate_ToPrimitive(a))

\* The dates of the run: years of every digit count up to four, months and
\* days of one and two digits, among them the dates of the inline test.
Years == {0, 9, 10, 999, 1000, 2023, 9999}
Months == {1, 2, 9, 10, 12}
Days == {1, 9, 10, 15, 31}

Dates ==
    {ComparableDate_constructor(y, m, d) : y \in Years, m \in Months, d \in Days}

DateFrame == UNCHANGED <<module, pila, cola, bag, l, heap, log, gone, added,
                         removed, store, inst, pts, built, d1, d2, more>>

InitDate ==
    /\ module = "ComparableDate"
    /\ IdleContainers /\ IdleTwo /\ IdlePunto /\ IdleMore
    /\ d1 \in Dates
    /\ d2 \in Dates

\* assert(d1 < d2)
Less ==
    /\ module = "ComparableDate"
    /\ last' = [name |-> "<", arg |-> Undefined, result |-> "return",
                ret |-> ToString(ComparableDate_less(d1, d2)), n0 |-> 0]
    /\ DateFrame

\* assert(d1 > d2)
Greater ==
    /\ module = "ComparableDate"
    /\ last' = [name |-> ">", arg |-> Undefined, result |-> "return",
                ret |-> ToString(ComparableDate_greater(d1, d2)), n0 |-> 0]
    /\ DateFrame

NextDate == Less \/ Greater

SpecDate == InitDate /\ [][NextDate]_vars

\* a is chronologically earlier than b.
Earlier(a, b) ==
    \/ a.year < b.year
    \/ a.year = b.year /\ a.month < b.month
    \/ a.year = b.year /\ a.month = b.month /\ a.date < b.date

(* ---------------------------- FechaComparable -------------------------- *)

FechaComparable_constructor(anio, mes, dia) ==
    [year |-> anio, month |-> mes, date |-> dia]

\* ""+año+"-"+mes+"-"+dia (the console.log of the method prints and changes
\* nothing).
FechaComparable_toString(o) ==
    NumberToString(o.year) \o <<45>> \o NumberToString(o.month) \o <<45>>
        \o NumberToString(o.date)

FechaComparable_valoeOf(o) == o.date + o.month * 31 + o.year * 366

\* The members the class body declares: the method that computes a number
\* is spelled valoeOf here too.
FechaComparable_members ==
    {"constructor", "diaDelAño", "esBiciesto", "toString", "valoeOf", "FechaHoy"}

\* ToPrimitive with hint number on a FechaComparable.
FechaComparable_ToPrimitive(o) ==
    IF "valueOf" \in FechaComparable_members
    THEN [type |-> "number", num |-> FechaComparable_valoeOf(o), str |-> <<>>]
    ELSE [type |-> "string", num |-> 0, str |-> FechaComparable_toString(o)]

\* a < b, a > b, a <= b and a >= b on two FechaComparable objects: a > b is
\* b < a, a <= b is not b < a, a >= b is not a < b.
FechaComparable_less(a, b) ==
    PrimitiveLess(FechaComparable_ToPrimitive(a), FechaComparable_ToPrimitive(b))

FechaComparable_greater(a, b) == FechaComparable_less(b, a)

FechaComparable_lessEq(a, b) == ~FechaComparable_less(b, a)

FechaComparable_greaterEq(a, b) == ~FechaComparable_less(a, b)

\* The dates of the run: those of the ComparableDate run, which hold the
\* dates f2 = 2023-2-15 and f5 = 2023-10-31 of the inline test.
Fechas ==
    {FechaComparable_constructor(y, m, d) : y \in Years, m \in Months, d \in Days}

InitFecha ==
    /\ module = "FechaComparable"
    /\ IdleContainers /\ IdleTwo /\ IdlePunto /\ IdleMore
    /\ d1 \in Fechas
    /\ d2 \in Fechas

\* The client evaluates d1 op d2 for one of the four relational operators.
Compare(op) ==
    /\ module = "FechaComparable"
    /\ last' = [name |-> op, arg |-> Undefined, result |-> "return",
                ret |-> ToString(CASE op = "<" -> FechaComparable_less(d1, d2)
                                   [] op = ">" -> FechaComparable_greater(d1, d2)
                                   [] op = "<=" -> FechaComparable_lessEq(d1, d2)
                                   [] op = ">=" -> FechaComparable_greaterEq(d1, d2)),
                n0 |-> 0]
    /\ DateFrame

NextFecha == \E op \in {"<", ">", "<=", ">="} : Compare(op)

SpecFecha == InitFecha /\ [][NextFecha]_vars

(* ------------------------- the date value function --------------------- *)

\* A run that calls valoeOf() itself on two dates of one of the two classes
\* that declare it.
InitValoe ==
    /\ module \in {"FechaComparable.valoeOf", "ComparableDate.valoeOf"}
    /\ IdleContainers /\ IdleTwo /\ IdlePunto /\ IdleMore
    /\ d1 \in Dates
    /\ d2 \in Dates

\* o.valoeOf() for an object of the class of the run.
ValoeOf(o) ==
    IF module = "FechaComparable.valoeOf"
    THEN FechaComparable_valoeOf(o)
    ELSE ComparableDate_valoeOf(o)

\* The client evaluates d1.valoeOf() < d2.valoeOf().
CompareValoe ==
    /\ module \in {"FechaComparable.valoeOf", "ComparableDate.valoeOf"}
    /\ last' = [name |-> "valoeOf", arg |-> ToString(ValoeOf(d2)),
                result |-> "return",
                ret |-> ToString(ValoeOf(d1) < ValoeOf(d2)), n0 |-> ValoeOf(d1)]
    /\ DateFrame

NextValoe == CompareValoe

SpecValoe == InitValoe /\ [][NextValoe]_vars

(* ------------------- Stack and ListaSimple in lockstep ----------------- *)

\* A client that holds a Stack and a ListaSimple and issues every call on
\* both: push and addHead, pop and removeHead, size and size, isEmpty and
\* isEmpty.  `last` notes the outcome on the Stack, `mirror` the outcome on
\* the ListaSimple.
Outcome(r) == [result |-> r.result, ret |-> r.ret]

InitPair ==
    /\ module = "Stack+ListaSimple"
    /\ IdleContainers /\ IdleTwo /\ IdlePunto /\ IdleDate
    /\ mirror = [result |-> "return", ret |-> Undefined]
    /\ pc = "idle" /\ IdleRango /\ IdleGenerar

PairFrame == UNCHANGED <<module, cola, bag, store, inst, pts, built, d1, d2,
                         pc, Nmin, Nmax, N, medidos, generar_n, generar_i,
                         personas>>

PairPush(item) ==
    /\ module = "Stack+ListaSimple"
    /\ Len(log) < MaxAdds
    /\ LET r == Stack_push(pila, item)
           m == ListaSimple_addHead(l, heap, item)
       IN  /\ pila' = r.obj
           /\ l' = m.obj
           /\ heap' = m.heap
           /\ last' = Call("push", item, r, Stack_size(pila))
           /\ mirror' = Outcome(m)
           /\ NoteAdd(item, r)
    /\ PairFrame

PairPop ==
    /\ module = "Stack+ListaSimple"
    /\ LET r == Stack_pop(pila)
           m == ListaSimple_removeHead(l, heap)
       IN  /\ pila' = r.obj
           /\ l' = m.obj
           /\ heap' = m.heap
           /\ last' = Call("pop", Undefined, r, Stack_size(pila))
           /\ mirror' = Outcome(m)
           /\ NoteRemove(r, Stack_size(pila), IF Live = {} THEN 0 ELSE Max(Live))
    /\ PairFrame

PairSize ==
    /\ module = "Stack+ListaSimple"
    /\ LET r == Stack_size_call(pila)
           m == ListaSimple_size_call(l)
       IN  /\ pila' = r.obj
           /\ l' = m.obj
           /\ last' = Call("size", Undefined, Noted(r), Stack_size(pila))
           /\ mirror' = Outcome(Noted(m))
    /\ UNCHANGED <<heap, log, gone, added, removed>>
    /\ PairFrame

PairIsEmpty ==
    /\ module = "Stack+ListaSimple"
    /\ LET r == Stack_isEmpty_call(pila)
           m == ListaSimple_isEmpty_call(l)
       IN  /\ pila' = r.obj
           /\ l' = m.obj
           /\ last' = Call("isEmpty", Undefined, Noted(r), Stack_size(pila))
           /\ mirror' = Outcome(Noted(m))
    /\ UNCHANGED <<heap, log, gone, added, removed>>
    /\ PairFrame

NextPair ==
    \/ \E item \in Value : PairPush(item)
    \/ PairPop
    \/ PairSize
    \/ PairIsEmpty

SpecPair == InitPair /\ [][NextPair]_vars

(* --------------------------- medicionesRangoN -------------------------- *)

\* A JavaScript number that the loop can hold is its start value times a
\* power of two: [m |-> Nmin, e |-> k] is Nmin * 2^k, which a double holds
\* exactly until the product leaves the range of a double; from 2^1024 on
\* the result of the multiplication is Infinity or -Infinity.
DoubleMaxExp == 1024

RECURSIVE Pow2(_)
Pow2(k) == IF k = 0 THEN 1 ELSE 2 * Pow2(k - 1)

\* The largest k with 2^k <= a, for a >= 1, and the least k with a <= 2^k.
RECURSIVE Log2Floor(_)
Log2Floor(a) == IF a < 2 THEN 0 ELSE 1 + Log2Floor(a \div 2)

Abs(a) == IF a < 0 THEN -a ELSE a

Number(a) == [m |-> a, e |-> 0]

IsInfinite(x) == x.m # 0 /\ x.e + Log2Floor(Abs(x.m)) >= DoubleMaxExp

\* Mutant: the update is written `N*2`, which computes the product and
\* leaves N as it is.
Times2_noAssign(x) == x

\* N *= 2: Infinity and -Infinity stay what they are, 0 stays 0.
Times2(x) ==
    IF x.m = 0 \/ IsInfinite(x) THEN x ELSE [x EXCEPT !.e = @ + 1]

\* x <= b for a number x of the loop and an integer b of at most seven
\* digits (below 2^24): from 2^24 on, the sign of x decides.
NumberLessEq(x, b) ==
    IF x.e + Log2Floor(Abs(x.m)) >= 24 THEN x.m < 0 ELSE x.m * Pow2(x.e) <= b

\* datos.length after `for (let i = 0; i < N; i++) datos.push(...)`: N
\* elements for a positive integer N, none for 0 and for negative N.
DatosLength(x) == IF x.m <= 0 THEN 0 ELSE x.m * Pow2(x.e)

\* The arguments of the run; (1000, 1000000) is the call of the module.
NminArgs == {-3, -1, 0, 1, 3, 1000}
NmaxArgs == {-2, 0, 10, 1000000}

InitRango ==
    /\ module = "medicionesRangoN"
    /\ IdleContainers /\ IdleTwo /\ IdlePunto /\ IdleDate /\ IdlePair
    /\ IdleGenerar
    /\ Nmin \in NminArgs
    /\ Nmax \in NmaxArgs
    /\ N = Number(Nmin)
    /\ medidos = {}
    /\ pc = "loop"

RangoFrame == UNCHANGED <<module, pila, cola, bag, l, heap, log, gone,
                          added, removed, store, inst, pts, built, d1, d2,
                          mirror, generar_n, generar_i, personas>>

\* One iteration: the test N <= Nmax holds, the body fills datos and
\* medirOrdenar prints a line with its length, then N *= 2.  `last` notes
\* the call of medirOrdenar and whether the number of lines printed so far
\* is even or odd.
Medir ==
    /\ module = "medicionesRangoN"
    /\ pc = "loop"
    /\ NumberLessEq(N, Nmax)
    /\ medidos' = medidos \cup {DatosLength(N)}
    /\ last' = [name |-> "medirOrdenar", arg |-> ToString(DatosLength(N)),
                result |-> "return", ret |-> Undefined,
                n0 |-> (last.n0 + 1) % 2]
    /\ N' = Times2(N)
    /\ UNCHANGED <<pc, Nmin, Nmax>>
    /\ RangoFrame

\* The test N <= Nmax fails and the function returns.
Salir ==
    /\ module = "medicionesRangoN"
    /\ pc = "loop"
    /\ ~NumberLessEq(N, Nmax)
    /\ pc' = "done"
    /\ UNCHANGED <<last, Nmin, Nmax, N, medidos>>
    /\ RangoFrame

NextRango == Medir \/ Salir

\* The interpreter keeps executing the loop: a step that is possible is
\* taken.
SpecRango == InitRango /\ [][NextRango]_vars /\ WF_vars(NextRango)

(* -------------------------------- generar ------------------------------ *)

\* Math.random() returns a number r with 0 <= r < 1; a draw is modelled as
\* k / RandomSteps for an integer k in 0 .. RandomSteps - 1.
RandomSteps == 1000

\* The draws of the run: the smallest and the largest.
Draws == {0, RandomSteps - 1}

\* The lengths of the arrays mujer, hombre and apellidos.
mujer_length == 100
hombre_length == 100
apellidos_length == 101

\* Mutant: the draw is rounded to the nearest integer, Math.round.
randomInteger_round(a, b, k) ==
    (2 * (k * (b - a)) + RandomSteps) \div (2 * RandomSteps) + a

\* Math.floor(Math.random()*(b-a)+a) for integers a <= b and the draw k.
randomInteger(a, b, k) == (k * (b - a)) \div RandomSteps + a

\* Math.random()*(b-a)+a, in units of 1 / RandomSteps.
randomDouble(a, b, k) == k * (b - a) + a * RandomSteps

\* array[index]: the element, named by its array and index, or undefined
\* when the index is not one of 0 .. length - 1.
ArrayGet(name, length, index) ==
    IF index \in 0..(length - 1)
    THEN [array |-> name, index |-> index]
    ELSE [array |-> Undefined, index |-> index]

\* The arguments of `new Person(nombre1+" "+nombre2, apellido1+" "+apellido2,
\* edad, peso)`; the two strings are kept as the pairs they are built from.
PersonArgs(nombre1, nombre2, apellido1, apellido2, edad, peso) ==
    [nombre |-> <<nombre1, nombre2>>, apellido |-> <<apellido1, apellido2>>,
     edad |-> edad, peso |-> peso]

\* The numbers of persons asked for.
GenerarArgs == {0, 1, 2}

InitGenerar ==
    /\ module = "GeneradorADTs"
    /\ IdleContainers /\ IdleTwo /\ IdlePunto /\ IdleDate /\ IdlePair
    /\ IdleRango
    /\ generar_n \in GenerarArgs
    /\ generar_i = 0
    /\ personas = <<>>
    /\ pc = "loop"

GenerarFrame == UNCHANGED <<module, pila, cola, bag, l, heap, log, gone,
                            added, removed, store, inst, pts, built, d1, d2,
                            mirror, Nmin, Nmax, N, medidos>>

\* One iteration of the loop of generar; k1 .. k7 are the draws of its seven
\* calls of Math.random, in call order.  `last` notes genero.
Iteracion(k1, k2, k3, k4, k5, k6, k7) ==
    /\ module = "GeneradorADTs"
    /\ pc = "loop"
    /\ generar_i < generar_n
    /\ LET genero == randomInteger(0, 2, k1)
           nombre1 == IF genero = 0
                      THEN ArrayGet("mujer", mujer_length,
                                    randomInteger(0, mujer_length, k2))
                      ELSE ArrayGet("hombre", hombre_length,
                                    randomInteger(0, hombre_length, k2))
           nombre2 == IF genero = 0
                      THEN ArrayGet("mujer", mujer_length,
                                    randomInteger(0, mujer_length, k3))
                      ELSE ArrayGet("hombre", hombre_length,
                                    randomInteger(0, hombre_length, k3))
           apellido1 == ArrayGet("apellidos", apellidos_length,
                                 randomInteger(0, apellidos_length, k4))
           apellido2 == ArrayGet("apellidos", apellidos_length,
                                 randomInteger(0, apellidos_length, k5))
           persona == PersonArgs(nombre1, nombre2, apellido1, apellido2,
                                 randomInteger(0, 80, k6),
                                 randomDouble(2, 100, k7))
       IN  /\ personas' = ArrayPush(personas, persona)
           /\ last' = [name |-> "generar", arg |-> ToString(genero),
                       result |-> "return", ret |-> Undefined,
                       n0 |-> generar_i]
    /\ generar_i' = generar_i + 1
    /\ UNCHANGED <<pc, generar_n>>
    /\ GenerarFrame

\* The test i < n fails and generar returns personas.
Retornar ==
    /\ module = "GeneradorADTs"
    /\ pc = "loop"
    /\ ~(generar_i < generar_n)
    /\ pc' = "done"
    /\ UNCHANGED <<last, generar_n, generar_i, personas>>
    /\ GenerarFrame

NextGenerar ==
    \/ \E k1, k2, k3, k4, k5, k6, k7 \in Draws :
            Iteracion(k1, k2, k3, k4, k5, k6, k7)
    \/ Retornar

SpecGenerar == InitGenerar /\ [][NextGenerar]_vars

(* ------------------------------- claims ------------------------------- *)

AddNames == {"push", "enqueue", "add", "addHead"}

\* C1: for each of the four containers, in every state a run reaches,
\* size() is 0 exactly when isEmpty() answers true.
C1_SizeZeroIffIsEmpty ==
    /\ (Stack_size(pila) = 0) <=> Stack_isEmpty(pila)
    /\ (Queue_size(cola) = 0) <=> Queue_isEmpty(cola)
    /\ (Bag_size(bag) = 0) <=> Bag_isEmpty(bag)
    /\ (ListaSimple_size(l) = 0) <=> ListaSimple_isEmpty(l)

\* A stack that was filled and then drained again by pops.
C1_Witness ==
    /\ module = "Stack" /\ last.name = "pop" /\ last.n0 = 1
    /\ added >= 2 /\ Stack_isEmpty(pila)

\* C2: after n add-operations that returned and m remove-operations that
\* removed an element, size() is n - m.
C2_SizeIsAddedMinusRemoved == CurSize = added - removed

\* A list after adds and removes were interleaved, with elements left.
C2_Witness ==
    /\ module = "ListaSimple" /\ last.name = "addHead"
    /\ added = 3 /\ removed = 1 /\ ListaSimple_size(l) = 2

\* C3: a pop on a non-empty Stack returns the item of the latest push whose
\* item has not been popped yet.
C3_StackLIFO ==
    [][(Pop /\ ~Stack_isEmpty(pila)) => last'.ret = log[Max(Live)]]_vars

\* push "1", push "Hola", pop, push x, pop, pop: the last pop returns "1".
C3_Witness ==
    /\ module = "Stack" /\ last.name = "pop" /\ last.n0 = 1
    /\ log[1] = "1" /\ last.ret = "1" /\ gone = {1, 2, 3}

\* C4: the k-th dequeue that finds the Queue non-empty returns the k-th
\* item enqueued.
C4_QueueFIFO ==
    [][(Dequeue /\ ~Queue_isEmpty(cola)) => last'.ret = log[removed + 1]]_vars

\* Three items enqueued, three dequeued, the last one "Hola"; queue empty.
C4_Witness ==
    /\ module = "Queue" /\ last.name = "dequeue" /\ last.n0 = 1
    /\ removed = 3 /\ Queue_isEmpty(cola)
    /\ log[1] = "1" /\ log[3] = "Hola" /\ last.ret = "Hola"

\* C5: pop() on an empty Stack fails with an Error and size() stays 0.
C5_StackPopEmptyFails ==
    (module = "Stack" /\ last.name = "pop" /\ last.n0 = 0)
        => (last.result = "throw" /\ Stack_size(pila) = 0)

\* C6: dequeue() on an empty Queue fails with an Error and size() stays 0.
C6_QueueDequeueEmptyFails ==
    (module = "Queue" /\ last.name = "dequeue" /\ last.n0 = 0)
        => (last.result = "throw" /\ Queue_size(cola) = 0)

\* C7: removeHead() on an empty ListaSimple throws and changes nothing:
\* afterwards size() is 0, isEmpty() is true and #first is still absent.
C7_RemoveHeadEmptyThrows ==
    [][(RemoveHead /\ ListaSimple_size(l) = 0) =>
            /\ last'.result = "throw"
            /\ l' = l /\ heap' = heap
            /\ ListaSimple_size(l') = 0
            /\ ListaSimple_isEmpty(l')
            /\ l'.first = NoNode]_vars

\* removeHead threw on a list that had been filled and drained.
C7_Witness ==
    /\ module = "ListaSimple" /\ last.name = "removeHead" /\ last.n0 = 0
    /\ last.result = "throw" /\ removed >= 1

\* C8: an add-operation called with null or undefined throws, leaves size()
\* as it was, and no container ever stores null or undefined.
C8_AddAbsentRejected ==
    /\ (last.name \in AddNames /\ last.arg \in Absent)
            => (last.result = "throw" /\ CurSize = last.n0)
    /\ \A i \in 1..Len(pila.items) : pila.items[i] \notin Absent
    /\ \A i \in 1..Len(cola.items) : cola.items[i] \notin Absent
    /\ \A i \in 1..Len(bag.items) : bag.items[i] \notin Absent
    /\ \A x \in 1..Len(heap) : heap[x].item \notin Absent

\* C9: a removeHead on a non-empty ListaSimple returns the item of the latest
\* addHead whose item has not been removed yet, and size() drops by one.
C9_ListaLIFO ==
    [][(RemoveHead /\ ~ListaSimple_isEmpty(l)) =>
            /\ last'.ret = log[Max(Live)]
            /\ ListaSimple_size(l') = ListaSimple_size(l) - 1]_vars

\* addHead "1", addHead x, addHead "Hola", removeHead returns "Hola", size 2.
C9_Witness ==
    /\ module = "ListaSimple" /\ last.name = "removeHead" /\ last.n0 = 3
    /\ log[1] = "1" /\ log[3] = "Hola" /\ last.ret = "Hola"
    /\ ListaSimple_size(l) = 2

\* C10: right after construction every container is empty: isEmpty() is
\* true, size() is 0 and the ListaSimple has no first node.
C10_CreatedEmpty ==
    last.name = "new" =>
        /\ Stack_isEmpty(pila) /\ Stack_size(pila) = 0
        /\ Queue_isEmpty(cola) /\ Queue_size(cola) = 0
        /\ Bag_isEmpty(bag) /\ Bag_size(bag) = 0
        /\ ListaSimple_isEmpty(l) /\ ListaSimple_size(l) = 0
        /\ l.first = NoNode

\* The freshly constructed list, before any call.
C10_Witness ==
    /\ module = "ListaSimple" /\ last.name = "new"
    /\ added = 0 /\ heap = <<>>

AnyAdd ==
    \E item \in Value : Push(item) \/ Enqueue(item) \/ Add(item) \/ AddHead(item)

\* A remove-operation that took an element out of the container.
AnyRemoval == (Pop \/ Dequeue \/ RemoveHead) /\ removed' = removed + 1

\* C11: isEmpty() and size() leave the stored items, their order and the
\* element count as they were, and a query repeated right after itself
\* returns the same value.
C11_QueriesPure ==
    [][(IsEmpty \/ Size) =>
            /\ UNCHANGED <<pila, cola, bag, l, heap>>
            /\ (last.name = last'.name => last'.ret = last.ret)]_vars

\* size() answered 2 on a list, right after another size() call.
C11_Witness ==
    /\ module = "ListaSimple" /\ last.name = "size" /\ last.n0 = 2
    /\ last.ret = "2" /\ ListaSimple_size(l) = 2

\* C12: after every add-operation isEmpty() is false; a remove-operation that
\* removed an element leaves the container empty exactly when that element
\* was the last one remaining; no other call changes what isEmpty() answers.
C12_EmptyNonEmptyPhases ==
    [][/\ AnyAdd => ~CurIsEmpty'
       /\ AnyRemoval => (CurIsEmpty' <=> Cardinality(Live) = 1)
       /\ (~AnyAdd /\ ~AnyRemoval) => (CurIsEmpty' = CurIsEmpty)]_vars

\* A list of two elements that removeHead has just drained.
C12_Witness ==
    /\ module = "ListaSimple" /\ last.name = "removeHead" /\ last.n0 = 1
    /\ removed = 2 /\ ListaSimple_isEmpty(l)

\* C13: no call on a Bag makes size() smaller, and once isEmpty() is false it
\* stays false.
C13_BagOnlyGrows ==
    [][module = "Bag" =>
            /\ Bag_size(bag') >= Bag_size(bag)
            /\ ~Bag_isEmpty(bag) => ~Bag_isEmpty(bag')]_vars

\* A bag that already held two items took a third.
C13_Witness ==
    /\ module = "Bag" /\ last.name = "add" /\ last.n0 = 2
    /\ Bag_size(bag) = 3

\* C14: a call on one of two container instances (add, remove, query, or a
\* remove that fails on an empty container) leaves the items, their order
\* and size() of the other instance unchanged.
C14_InstancesIndependent ==
    [][\A i \in {1, 2} : TwoOp(i) => TwoView(3 - i)' = TwoView(3 - i)]_vars

\* Two stacks with different contents, after a pop on one of them.
C14_Witness ==
    /\ module = "Stack" /\ last.name = "remove"
    /\ Len(TwoItems(1)) = 1 /\ Len(TwoItems(2)) = 1
    /\ TwoItems(1) # TwoItems(2) /\ added = 3

\* C15: every container can be iterated: a for-of loop over it completes
\* normally (the claim goes on to fix the order of the items the loop yields
\* and to require that the container is left as it was).
C15_Iterable == last.name = "for-of" => last.result = "return"

\* C16: invert() reverses the head-to-tail order of the items, keeps size(),
\* and a second invert() restores the order the list had.
C16_InvertReverses ==
    [][Invert =>
            /\ ChainItems(heap', l'.first) = Reverse(ChainItems(heap, l.first))
            /\ ListaSimple_size(l') = ListaSimple_size(l)
            /\ LET again == ListaSimple_invert(l', heap')
               IN  ChainItems(again.heap, again.obj.first)
                        = ChainItems(heap, l.first)]_vars

\* Three addHead calls, then invert(): the list now reads in call order.
C16_Witness ==
    /\ module = "ListaSimple" /\ last.name = "invert" /\ last.n0 = 3
    /\ removed = 0
    /\ log = <<"1", "1", "Hola">>
    /\ ChainItems(heap, l.first) = <<"1", "1", "Hola">>

\* C17: p.equals(null) and p.equals(undefined) return false and do not throw.
C17_EqualsNullSafe ==
    (last.name = "equals" /\ last.arg \in Absent)
        => (last.result = "return" /\ last.ret = "FALSE")

\* C18: equals is reflexive, symmetric and transitive on the points built.
C18_EqualsEquivalence ==
    module = "Punto2D" =>
        LET Eq(i, j) == Punto2D_equals(pts[i], pts[j]).ret
        IN  \A i, j, k \in 1..3 :
                /\ Eq(i, i)
                /\ Eq(i, j) <=> Eq(j, i)
                /\ (Eq(i, j) /\ Eq(j, k)) => Eq(i, k)

\* C19: what getX and getY return for a point stays what it was built with.
C19_PointsImmutable ==
    module = "Punto2DSetter" => Coords(pts[1]) = built[1]

\* C20: for two ComparableDate objects, d1 < d2 is true exactly when d1 is
\* chronologically earlier than d2, and d1 > d2 exactly when it is later.
C20_ComparableDateOrder ==
    /\ last.name = "<" => (last.ret = ToString(Earlier(d1, d2)))
    /\ last.name = ">" => (last.ret = ToString(Earlier(d2, d1)))

\* The inline test: 2023-10-31 > 2023-2-15 was evaluated and is true.
C20_Witness ==
    /\ module = "ComparableDate" /\ last.name = ">" /\ last.ret = "TRUE"
    /\ d1 = ComparableDate_constructor(2023, 10, 31)
    /\ d2 = ComparableDate_constructor(2023, 2, 15)

\* C21: for two FechaComparable objects, d1 < d2 is true exactly when d1 is
\* chronologically earlier than d2, d1 > d2 exactly when it is later, and
\* <= and >= are their complements.
C21_FechaComparableOrder ==
    module = "FechaComparable" =>
        /\ last.name = "<" => (last.ret = ToString(Earlier(d1, d2)))
        /\ last.name = ">" => (last.ret = ToString(Earlier(d2, d1)))
        /\ last.name = "<=" => (last.ret = ToString(~Earlier(d2, d1)))
        /\ last.name = ">=" => (last.ret = ToString(~Earlier(d1, d2)))

\* C22: in every state reached by addHead and removeHead calls, failed ones
\* included, #n is 0 exactly when #first is absent, and #n is the number of
\* nodes reachable from #first along sig.
C22_ListaRepresentation ==
    /\ (l.n = 0) <=> (l.first = NoNode)
    /\ l.n = Len(Reachable(heap, l.first))

\* Three nodes were added and removed, and one more removeHead threw: the
\* three nodes are still allocated but none is reachable.
C22_Witness ==
    /\ module = "ListaSimple" /\ last.name = "removeHead"
    /\ last.result = "throw" /\ Len(heap) = 3 /\ l.first = NoNode

\* C23: the chain of every list ends at an absent sig after finitely many
\* nodes, holds no node twice, and shares no node with the chain of the other
\* list.
C23_ChainsAcyclicOwned ==
    module = "ListaSimple" =>
        LET c(j) == Reachable(heap, inst[j].first)
        IN  /\ \A j \in {1, 2} :
                /\ Len(c(j)) <= Len(heap)
                /\ \A a, b \in 1..Len(c(j)) : c(j)[a] = c(j)[b] => a = b
            /\ \A a \in 1..Len(c(1)), b \in 1..Len(c(2)) : c(1)[a] # c(2)[b]

\* Two lists built by interleaved addHead calls: two nodes in one, one in
\* the other.
C23_Witness ==
    /\ module = "ListaSimple" /\ last.name = "add" /\ inst # <<>>
    /\ Len(Reachable(heap, inst[1].first)) = 2
    /\ Len(Reachable(heap, inst[2].first)) = 1
    /\ heap[inst[1].first].sig = 1

\* The set of the nodes reachable from node x.
Nodes(h, x) == {Reachable(h, x)[a] : a \in 1..Len(Reachable(h, x))}

\* C24 as stated: after a successful removeHead() the removed node is not
\* reachable from #first and its sig does not point into the remaining chain.
C24_RemovedNodeDetached ==
    [][(RemoveHead /\ l.first # NoNode) =>
            /\ l.first \notin Nodes(heap', l'.first)
            /\ heap'[l.first].sig \notin Nodes(heap', l'.first)]_vars

\* C24 amended: after a successful removeHead() the removed node is not
\* reachable from #first and no node of the list refers to it; the removed
\* node keeps its sig, which is the new #first.
C24_RemovedNodeUnreachable ==
    [][(RemoveHead /\ l.first # NoNode) =>
            /\ l.first \notin Nodes(heap', l'.first)
            /\ \A y \in Nodes(heap', l'.first) : heap'[y].sig # l.first
            /\ heap'[l.first].sig = l'.first
            /\ heap'[l.first].sig = heap[l.first].sig]_vars

\* removeHead on a list of three nodes: node 3 is off the list, and its sig
\* still refers to node 2, the new first node.
C24_Witness ==
    /\ module = "ListaSimple" /\ last.name = "removeHead" /\ last.n0 = 3
    /\ Len(heap) = 3 /\ l.first = 2 /\ heap[3].sig = 2
    /\ Nodes(heap, l.first) = {1, 2}

\* C25: whenever d1 is chronologically earlier than d2, the value of d1 is
\* smaller than the value of d2, across a year boundary too.
C25_ValueMonotone ==
    (last.name = "valoeOf" /\ Earlier(d1, d2)) => last.ret = "TRUE"

\* C27: pop() or dequeue() returns undefined only when the container was
\* empty right before the call.
C27_UndefinedMeansEmpty ==
    (last.name \in {"pop", "dequeue"} /\ last.result = "return"
            /\ last.ret = Undefined)
        => last.n0 = 0

\* C26: every call issued on both the Stack and the ListaSimple has the same
\* outcome on both, unless it is a removal issued on an empty container:
\* there the Stack returns and the ListaSimple throws.
C26_StackListaEquivalent ==
    module = "Stack+ListaSimple" =>
        IF last.name = "pop" /\ last.n0 = 0
        THEN last.result = "return" /\ mirror.result = "throw"
        ELSE Outcome(last) = mirror

\* push "1", push "Hola", pop, push x, pop, pop: the last removal returned
\* "1" on both containers.
C26_Witness ==
    /\ module = "Stack+ListaSimple" /\ last.name = "pop" /\ last.n0 = 1
    /\ gone = {1, 2, 3} /\ log[1] = "1"
    /\ last.ret = "1" /\ mirror.ret = "1"

\* C28 as stated: medicionesRangoN(Nmin, Nmax) returns for every pair of
\* arguments, Nmin = 0 and negative Nmin included.
C28_AlwaysTerminates == <>(pc = "done")

\* C28 amended: the call returns when Nmin > 0 or Nmin > Nmax, and never
\* returns when Nmin <= 0 and Nmin <= Nmax; the call (1000, 1000000)
\* measures exactly the sizes 1000, 2000, ..., 512000.
C28_TerminatesForPositive ==
    /\ [](module = "medicionesRangoN" /\ (Nmin > 0 \/ Nmin > Nmax)
            => <>(pc = "done"))
    /\ [](module = "medicionesRangoN" /\ Nmin <= 0 /\ Nmin <= Nmax
            => pc # "done")
    /\ [](pc = "done" /\ Nmin = 1000 /\ Nmax = 1000000
            => medidos = {1000 * Pow2(k) : k \in 0..9})

\* medicionesRangoN(1000, 1000000) has returned after ten measurements.
C28_Witness ==
    /\ module = "medicionesRangoN" /\ pc = "done"
    /\ Nmin = 1000 /\ Nmax = 1000000
    /\ Cardinality(medidos) = 10 /\ 512000 \in medidos
    /\ N = [m |-> 1000, e |-> 10]

\* C29: generar(n) returns a list of exactly n persons; every genero drawn is
\* 0 or 1, no name part is undefined (every index is inside its array), and
\* every age is one of 0 .. 79.
C29_GenerarInBounds ==
    module = "GeneradorADTs" =>
        /\ pc = "done" => Len(personas) = generar_n
        /\ last.name = "generar" => last.arg \in {"0", "1"}
        /\ \A j \in 1..Len(personas) :
            /\ \A c \in {1, 2} :
                /\ personas[j].nombre[c].array \in {"mujer", "hombre"}
                /\ personas[j].apellido[c].array = "apellidos"
            /\ personas[j].edad \in 0..79

\* generar(2) has returned two persons; the draws of the second were all the
\* largest: the last hombre, the last apellido, age 79.
C29_Witness ==
    /\ module = "GeneradorADTs" /\ pc = "done" /\ generar_n = 2
    /\ Len(personas) = 2
    /\ personas[1].nombre[1] = [array |-> "mujer", index |-> 0]
    /\ personas[2].nombre[1] = [array |-> "hombre", index |-> 99]
    /\ personas[2].apellido[2] = [array |-> "apellidos", index |-> 100]
    /\ personas[2].edad = 79

====
